---- MODULE Spec2Model ----
(***************************************************************************)
(* A model of the streamlink backend's background jobs                     *)
(* (src/backend/app/tasks): ingestion of Netflix CSV / YouTube history     *)
(* batches, the embedding stage, and the recommendation refresh, running   *)
(* on a pool of workers over one PostgreSQL database (READ COMMITTED, one  *)
(* SQLAlchemy session per job, autoflush off).                             *)
(*                                                                         *)
(* Every action is one database round trip (query, commit) or one broker   *)
(* call of a job, together with the job-local code that follows it up to   *)
(* the next round trip.  The opaque `raw` audit payload of an Event and    *)
(* the wall-clock timestamps are not represented.                          *)
(***************************************************************************)
EXTENDS Bags, FiniteSets, Integers, Naturals, Sequences, TLC

\* ---------------------------------------------------------------- bounds
MaxBatch == 3      \* records in one batch
MaxRecords == 4    \* records in all submitted batches together

\* ------------------------------------------------------------ value sets
NULL == "NULL"
Titles == {"A", "B"}
Years == {NULL, "2020"}
Users == {"u1"}
IngJobs == {1, 2}
EnrJobs == {1, 2}
EmbJobs == {1, 2}
RefJobs == {1, 2}

\* normalized records produced by NetflixCSVParser.parse_csv: the title is
\* never empty, year is an int or None, date is a datetime or None (an
\* empty Date column).
NetflixRecords == [title : Titles, year : Years, date : {"ok", NULL}]

\* YouTube history entries after the "Watched " prefix is stripped: title ""
\* stands for an entry the loop skips, time is an ISO string or not.
YouTubeRecords == [title : Titles \cup {""}, year : {NULL}, date : {"ok", "bad"}]

RecordsOf(kind) == IF kind = "NETFLIX" THEN NetflixRecords ELSE YouTubeRecords

VARIABLES
    providers,    \* committed rows of table providers (their names)
    items,        \* committed rows of table items
    events,       \* committed rows of table events (a bag: rows differ by id only)
    enrichQueue,  \* enrich_item_metadata messages on the broker (bag of item ids)
    ing,          \* the ingestion jobs: ing[j] is the job's frame
    overlap,      \* history: two ingestion jobs have been running at once
    embeddings,   \* committed rows of table embeddings
    embedQueue,   \* generate_item_embedding messages on the broker (bag of item ids)
    enr,          \* the metadata-stage jobs
    emb,          \* the embedding-stage jobs
    embOverlap,   \* history: two embedding-stage jobs have been running at once
    sends,        \* number of jobs submitted through the API so far
    recs,         \* committed rows of table recommendations
    ref,          \* the refresh jobs
    refOverlap,   \* history: two refresh jobs have been running at once
    calls,        \* history: the calls made to the embeddings services
    tasks,        \* the result backend: what is stored for each task id
    reported,     \* history: the states get_job_status has returned
    applied       \* history: cosine_similarity calls and HTTP requests, with their answers

vars == <<providers, items, events, enrichQueue, ing, overlap,
          embeddings, embedQueue, enr, emb, embOverlap, sends,
          recs, ref, refOverlap, calls, tasks, reported, applied>>

\* what no job writes: the embeddings services and the jobs API
serviceVars == <<calls, tasks, reported, applied>>

\* what the refresh jobs write
refreshVars == <<recs, ref, refOverlap>>

\* what the ingestion jobs leave alone
enrichVars == <<embeddings, embedQueue, enr, emb, embOverlap, sends, refreshVars,
                serviceVars>>

\* --------------------------------------------------------------- helpers
BagAdd(b, e) == b (+) SetToBag({e})

RECURSIVE SeqToBag(_)
SeqToBag(s) == IF s = <<>> THEN EmptyBag ELSE BagAdd(SeqToBag(Tail(s)), Head(s))

Range(s) == {s[k] : k \in DOMAIN s}

IngRunning(j) == ing[j].pc \notin {"idle", "done", "failed"}

Key(source, title, year) == <<source, title, year>>
ItemKey(it) == Key(it.source, it.title, it.year)

\* job frames before a worker has picked the job up
IdleEnr ==
    [pc |-> "idle", item_id |-> NULL, item |-> NULL, provider |-> NULL, tmdb |-> NULL,
     state |-> "PENDING", progress |-> 0, status |-> NULL, error |-> NULL]

IdleEmb ==
    [pc |-> "idle", item_id |-> NULL, item |-> NULL, text |-> NULL, vector |-> NULL,
     state |-> "PENDING", progress |-> 0, status |-> NULL, error |-> NULL]

\* task ids handed out by send_task, and what the result backend holds for
\* an id it knows nothing about
TaskIds == {1, 2}
NoTask ==
    [pc |-> "unsent", state |-> "PENDING", progress |-> 0, revoked |-> FALSE,
     result |-> "none", name |-> "none", args |-> <<>>, retry_of |-> 0,
     retry_response |-> "none", cancel_response |-> "none"]

IdleRef ==
    [pc |-> "idle", user_id |-> NULL, watched_item_ids |-> {}, user_preference |-> NULL,
     similarities |-> <<>>, targets |-> {}, deleted |-> {}, new |-> {},
     state |-> "PENDING", progress |-> 0, status |-> NULL, error |-> NULL,
     failed_at |-> NULL]

\* ------------------------------------------------------------- ingestion
IdleJob ==
    [pc |-> "idle", kind |-> NULL, user_id |-> NULL, total |-> 0, i |-> 0,
     cur |-> NULL, state |-> "PENDING", progress |-> 0, error |-> NULL,
     result |-> NULL, created_items |-> <<>>, created_events |-> 0,
     session |-> <<>>, enqueued |-> <<>>, seen |-> EmptyBag]

IngFail_Swallowed(job, msg) ==
    [job EXCEPT !.pc = "failed", !.state = "SUCCESS", !.session = <<>>]

\* except Exception: update_state(FAILURE, error); raise.  db.close() in the
\* finally block rolls the open transaction back.
IngFail(job, msg) ==
    [job EXCEPT !.pc = "failed", !.state = "FAILURE", !.error = msg, !.session = <<>>]

\* The provider row the job works with.
ProviderExists(name) == name \in providers

\* db.query(Item).filter(title, year, source).first() for Netflix,
\* .filter(title, source).first() for YouTube: the matching rows.
NetflixMatches_TitleOnly(tbl, r) ==
    {it \in tbl : it.title = r.title /\ it.source = "NETFLIX"}

NetflixMatches(tbl, r) ==
    {it \in tbl : it.title = r.title /\ it.year = r.year /\ it.source = "NETFLIX"}

YouTubeMatches(tbl, r) ==
    {it \in tbl : it.title = r.title /\ it.source = "YOUTUBE"}

Matches(kind, tbl, r) ==
    IF kind = "NETFLIX" THEN NetflixMatches(tbl, r) ELSE YouTubeMatches(tbl, r)

\* Item(...) built by the job: uuid4 ids are unique, here the pair of the
\* creating job and the loop index.
NewItem(j, job, r) ==
    [id |-> <<j, job.i>>, source |-> job.kind, title |-> r.title,
     year |-> IF job.kind = "NETFLIX" THEN r.year ELSE NULL,
     tmdb_id |-> NULL, overview |-> NULL, genres |-> <<>>]

\* Event(...): occurred_at is item_data.get("date", utcnow()) for Netflix
\* (None when the parser stored date=None), fromisoformat(time) for YouTube.
NewEvent(job, item_id, r) ==
    [user_id |-> job.user_id, item_id |-> item_id, event_type |-> "WATCHED",
     occurred_at |-> r.date]

\* The tables are those of the alembic migration, or those create_tables
\* builds from the models: only the latter declare the foreign keys.
\* The flush of the session's pending events succeeds unless a row violates
\* NOT NULL on events.occurred_at or the foreign key events.user_id -> users.id.
FlushOk(session) ==
    \A k \in DOMAIN session :
        /\ session[k].occurred_at # NULL
        /\ session[k].user_id \in Users

\* the error of the first row the flush cannot insert
FlushError(session) ==
    LET bad == {k \in DOMAIN session :
                  \/ session[k].occurred_at = NULL
                  \/ session[k].user_id \notin Users}
        first == CHOOSE k \in bad : \A h \in bad : k <= h
    IN IF session[first].occurred_at = NULL THEN "null value in column occurred_at"
       ELSE "violates foreign key constraint events_user_id_fkey"

\* progress reported after record i (0-based) of the loop
NetflixProgress_Remaining(i, total) == 30 + (((total - i) * 60) \div total)

NetflixProgress(i, total) == 30 + (((i + 1) * 60) \div total)
YouTubeProgress(i, total) == ((i + 1) * 80) \div total

\* Lines 78-96 / 183-201: build the Event, db.add it, count it, report
\* progress, advance the loop.
AddEvent(job, item_id, r) ==
    IF job.kind = "YOUTUBE" /\ r.date = "bad"
    THEN IngFail(job, "Invalid isoformat string")
    ELSE [job EXCEPT
            !.session = Append(@, NewEvent(job, item_id, r)),
            !.created_events = @ + 1,
            !.seen = BagAdd(@, Key(job.kind, r.title, IF job.kind = "NETFLIX" THEN r.year ELSE NULL)),
            !.progress = IF job.kind = "NETFLIX" THEN NetflixProgress(job.i, job.total)
                         ELSE YouTubeProgress(job.i, job.total),
            !.i = @ + 1,
            !.cur = NULL,
            !.pc = "loop"]

RECURSIVE SumTotal(_)
SumTotal(S) == IF S = {} THEN 0
               ELSE LET j == CHOOSE x \in S : TRUE IN ing[j].total + SumTotal(S \ {j})

\* records in the batches submitted so far
Submitted == SumTotal(IngJobs)

\* A worker picks the job up (jobs are numbered in the order workers pick
\* them up): update_state(PROCESSING, 0); the Netflix job
\* parses the CSV (progress 30); a session is opened.
IngStartAs(j, ids) ==
    /\ ing[j].pc = "idle"
    /\ \A k \in IngJobs : k < j => ing[k].pc # "idle"
    /\ \E kind \in {"NETFLIX", "YOUTUBE"}, u \in ids, n \in 0..MaxBatch :
         /\ n + Submitted <= MaxRecords
         /\ ing' = [ing EXCEPT ![j] = [@ EXCEPT
                    !.pc = "provider", !.kind = kind, !.user_id = u, !.total = n,
                    !.state = "PROCESSING",
                    !.progress = IF kind = "NETFLIX" THEN 30 ELSE 0]]
    /\ overlap' = (overlap \/ \E k \in IngJobs \ {j} : IngRunning(k))
    /\ UNCHANGED <<providers, items, events, enrichQueue, enrichVars>>

\* the API passes the id of a user it has looked up
IngStart(j) == IngStartAs(j, Users)

\* db.query(Provider).filter(name == ...).first()
IngProviderLookup(j) ==
    /\ ing[j].pc = "provider"
    /\ ing' = [ing EXCEPT ![j].pc =
                 IF ProviderExists(ing[j].kind) THEN "loop" ELSE "provider_insert"]
    /\ UNCHANGED <<providers, items, events, enrichQueue, overlap, enrichVars>>

\* db.add(provider); db.commit(): providers.name is unique.
IngProviderInsert(j) ==
    /\ ing[j].pc = "provider_insert"
    /\ IF ProviderExists(ing[j].kind)
       THEN /\ ing' = [ing EXCEPT ![j] = IngFail(@, "duplicate key ix_providers_name")]
            /\ UNCHANGED providers
       ELSE /\ providers' = providers \cup {ing[j].kind}
            /\ ing' = [ing EXCEPT ![j].pc = "loop"]
    /\ UNCHANGED <<items, events, enrichQueue, overlap, enrichVars>>

\* Top of the loop body for the next record: the YouTube skip, then the
\* lookup query; on a hit the event is added in the same step.
IngLookup(j) ==
    /\ ing[j].pc = "loop"
    /\ ing[j].i < ing[j].total
    /\ \E r \in RecordsOf(ing[j].kind) :
         IF ing[j].kind = "YOUTUBE" /\ r.title = ""
         THEN ing' = [ing EXCEPT ![j].i = @ + 1]
         ELSE LET m == Matches(ing[j].kind, items, r) IN
              IF m = {}
              THEN ing' = [ing EXCEPT ![j].pc = "insert", ![j].cur = r]
              ELSE \E it \in m : ing' = [ing EXCEPT ![j] = AddEvent(@, it.id, r)]
    /\ UNCHANGED <<providers, items, events, enrichQueue, overlap, enrichVars>>

\* db.add(item); db.commit(); db.refresh(item); created_items.append(item),
\* then the event.  The commit flushes the events added so far as well.
IngInsert(j) ==
    /\ ing[j].pc = "insert"
    /\ LET job == ing[j]
           it == NewItem(j, job, job.cur)
       IN IF FlushOk(job.session)
          THEN /\ items' = items \cup {it}
               /\ events' = events (+) SeqToBag(job.session)
               /\ ing' = [ing EXCEPT ![j] =
                            AddEvent([job EXCEPT !.session = <<>>,
                                                 !.created_items = Append(@, it.id)],
                                     it.id, job.cur)]
          ELSE /\ ing' = [ing EXCEPT ![j] = IngFail(job, FlushError(job.session))]
               /\ UNCHANGED <<items, events>>
    /\ UNCHANGED <<providers, enrichQueue, overlap, enrichVars>>

\* The db.commit() after the loop; progress 90.
IngCommit(j) ==
    /\ ing[j].pc = "loop"
    /\ ing[j].i = ing[j].total
    /\ IF FlushOk(ing[j].session)
       THEN /\ events' = events (+) SeqToBag(ing[j].session)
            /\ ing' = [ing EXCEPT ![j].session = <<>>, ![j].progress = 90,
                                  ![j].pc = "enqueue"]
       ELSE /\ ing' = [ing EXCEPT ![j] = IngFail(@, FlushError(ing[j].session))]
            /\ UNCHANGED events
    /\ UNCHANGED <<providers, items, enrichQueue, overlap, enrichVars>>

ToEnrich_LastOnly(job) ==
    IF job.created_items = <<>> THEN <<>>
    ELSE <<job.created_items[Len(job.created_items)]>>

ToEnrich_Uncommitted(job) == Append(job.created_items, <<0, 0>>)

\* The items an ingestion job hands to enrich_item_metadata.delay.
ToEnrich(job) == job.created_items

\* for item in created_items: enrich_item_metadata.delay(item.id);
\* update_state(SUCCESS, 100); return the result payload.
IngFinish(j) ==
    /\ ing[j].pc = "enqueue"
    /\ enrichQueue' = enrichQueue (+) SeqToBag(ToEnrich(ing[j]))
    /\ ing' = [ing EXCEPT ![j].enqueued = ToEnrich(ing[j]),
                          ![j].state = "SUCCESS", ![j].progress = 100,
                          ![j].result = [status |-> "success",
                                         items_created |-> Len(ing[j].created_items),
                                         events_created |-> ing[j].created_events],
                          ![j].pc = "done"]
    /\ UNCHANGED <<providers, items, events, overlap, enrichVars>>

IngInit ==
    /\ providers = {}
    /\ items = {}
    /\ events = EmptyBag
    /\ enrichQueue = EmptyBag
    /\ ing = [j \in IngJobs |-> IdleJob]
    /\ overlap = FALSE
    /\ embeddings = {}
    /\ embedQueue = EmptyBag
    /\ enr = [j \in EnrJobs |-> IdleEnr]
    /\ emb = [j \in EmbJobs |-> IdleEmb]
    /\ embOverlap = FALSE
    /\ sends = 0
    /\ recs = {}
    /\ ref = [j \in RefJobs |-> IdleRef]
    /\ refOverlap = FALSE
    /\ calls = <<>>
    /\ tasks = [t \in TaskIds |-> NoTask]
    /\ reported = {}
    /\ applied = <<>>

IngNext ==
    \E j \in IngJobs :
        \/ IngStart(j)
        \/ IngProviderLookup(j)
        \/ IngProviderInsert(j)
        \/ IngLookup(j)
        \/ IngInsert(j)
        \/ IngCommit(j)
        \/ IngFinish(j)

SpecIngest == IngInit /\ [][IngNext]_vars

\* A worker that holds a job keeps executing it; whether and when a batch is
\* submitted is up to the clients.
IngWorkerNext ==
    \E j \in IngJobs :
        \/ IngProviderLookup(j)
        \/ IngProviderInsert(j)
        \/ IngLookup(j)
        \/ IngInsert(j)
        \/ IngCommit(j)
        \/ IngFinish(j)

SpecIngestLive == SpecIngest /\ WF_vars(IngWorkerNext)

\* ------------------------------------------------ properties of ingestion
Sources == {"NETFLIX", "YOUTUBE"}
Keys == Sources \X Titles \X Years

ItemsWithKey(k) == {it \in items : ItemKey(it) = k}

\* events whose item carries key k
EventsOnKey(k) ==
    LET ids == {it.id : it \in ItemsWithKey(k)}
        refs == {e \in BagToSet(events) : e.item_id \in ids}
        RECURSIVE Sum(_)
        Sum(S) == IF S = {} THEN 0
                  ELSE LET e == CHOOSE x \in S : TRUE IN CopiesIn(e, events) + Sum(S \ {e})
    IN Sum(refs)

\* records with key k handled by the jobs
IngestedCount(k) == CopiesIn(k, ing[1].seen) + CopiesIn(k, ing[2].seen)

NoJobRunning == \A j \in IngJobs : ing[j].pc \in {"idle", "done"}

C2_AtMostOneItemPerKey ==
    \A k \in Keys : Cardinality(ItemsWithKey(k)) <= 1

\* C3: a completed batch enqueued one enrichment job for each Item it newly
\* created and for nothing else, reports that number as items_created and
\* the number of parsed records as events_created; rows [A, A, B] on an
\* empty catalog give 2 Items, 3 Events, 2 enrichment jobs.
CreatedBy(j) == {it \in items : it.id[1] = j}

LosesProviderRace(j) == ing[j].pc = "provider_insert" /\ ProviderExists(ing[j].kind)

C12_RaceLoserContinues ==
    [][\A j \in IngJobs :
          (LosesProviderRace(j) /\ ing'[j] # ing[j])
              => (ing'[j].pc = "loop" /\ ing'[j].state # "FAILURE")]_vars

\* C13: no ingestion job is in FAILURE because of a record that could not
\* be parsed (a history entry whose time is missing or malformed): such a
\* record is skipped.
UnparseableErrors == {"Invalid isoformat string"}

C13_BadRecordSkipped ==
    \A j \in IngJobs :
        ing[j].state = "FAILURE" => ing[j].error \notin UnparseableErrors

\* ------------------------------------------------- enrichment pipeline
\* what the enrichment jobs leave alone
ingestVars == <<providers, events, ing, overlap, refreshVars, serviceVars>>

\* bound on the jobs submitted through the API (celery_app.send_task)
MaxSends == 2

\* the catalog the enrichment jobs start from: two RAW items as one
\* ingestion batch leaves them, with their enrichment jobs enqueued
RawItem(id, title) ==
    [id |-> id, source |-> "NETFLIX", title |-> title, year |-> NULL,
     tmdb_id |-> NULL, overview |-> NULL, genres |-> <<>>]

SeedItems == {RawItem(<<1, 0>>, "A"), RawItem(<<1, 1>>, "B")}

\* an id no Item has
UnknownId == <<0, 0>>
ArgIds == {it.id : it \in SeedItems} \cup {UnknownId}

\* outcomes of TMDBService.search_item: no result, or a first result with
\* or without an overview and genres
TmdbResults ==
    {[id |-> "t1", overview |-> "o1", genres |-> <<"g1">>],
     [id |-> "t1", overview |-> NULL, genres |-> <<>>]}
SearchOutcomes == {<<>>} \cup {<<t>> : t \in TmdbResults}

\* what happens to the requests of one search: they are answered, they raise
\* (connection error, timeout, HTTP error status), or no API key is set
TmdbFailures == {"request_error", "no_api_key"}
TmdbCalls == {"answered"} \cup TmdbFailures

search_item_Unguarded(call, answer) == answer

\* TMDBService.search_item: [] without an API key and on any exception,
\* else the results of the answer
search_item(call, answer) == IF call \in TmdbFailures THEN <<>> ELSE answer

ModelName == "text-embedding-ada-002"

EnrFail_Ignored(job, msg) == [job EXCEPT !.pc = "done", !.state = "SUCCESS", !.status = "skipped"]

EnrFail(job, msg) == [job EXCEPT !.pc = "failed", !.state = "FAILURE", !.error = msg]

\* return {"status": ...} after update_state(SUCCESS, 100)
EnrReturn(job, st) ==
    [job EXCEPT !.pc = "done", !.state = "SUCCESS", !.progress = 100, !.status = st]

\* db.query(Item).filter(Item.id == item_id).first()
ItemById(tbl, id) == {it \in tbl : it.id = id}

\* if item.tmdb_id and item.overview
AlreadyEnriched(it) == it.tmdb_id # NULL /\ it.overview # NULL

WithMetadata_Unchanged(it, t) == it

\* item.tmdb_id = ...; item.overview = ...; item.genres = ...
WithMetadata(it, t) ==
    [it EXCEPT !.tmdb_id = t.id, !.overview = t.overview, !.genres = t.genres]

\* embedding_text: the title, then the overview and the joined genres when
\* they are set
BuildText(it) ==
    <<it.title>> \o (IF it.overview # NULL THEN <<it.overview>> ELSE <<>>)
                 \o (IF it.genres # <<>> THEN <<it.genres>> ELSE <<>>)

\* generate_embedding: the provider's vector for the text, or the mock
\* vector derived from the text when the call fails
ProviderVector(text) == <<"openai", text>>
MockVector(text) == <<"mock", text>>
GenerateOutcomes(text) == {ProviderVector(text), MockVector(text)}

ExistingEmbeddings_OtherModel(tbl, item_id) ==
    {e \in tbl : e.item_id = item_id /\ e.model = "ollama:nomic-embed-text"}

\* db.query(Embedding).filter(Embedding.item_id == item.id)
ExistingEmbeddings(tbl, item_id) == {e \in tbl : e.item_id = item_id}

EnrRunning(j) == enr[j].pc \notin {"idle", "done", "failed"}
EmbRunning(j) == emb[j].pc \notin {"idle", "done", "failed"}

\* celery_app.send_task(name, args=[item_id]) from the API (submit, retry)
SendEnrichTask(id) ==
    /\ sends < MaxSends
    /\ sends' = sends + 1
    /\ enrichQueue' = BagAdd(enrichQueue, id)
    /\ UNCHANGED <<items, embeddings, embedQueue, enr, emb, embOverlap, ingestVars>>

SendEmbedTask(id) ==
    /\ sends < MaxSends
    /\ sends' = sends + 1
    /\ embedQueue' = BagAdd(embedQueue, id)
    /\ UNCHANGED <<items, embeddings, enrichQueue, enr, emb, embOverlap, ingestVars>>

\* ---- enrich_item_metadata
\* a worker takes the message: update_state(PROCESSING, 0)
EnrStart(j) ==
    /\ enr[j].pc = "idle"
    /\ \A k \in EnrJobs : k < j => enr[k].pc # "idle"
    /\ \E id \in BagToSet(enrichQueue) :
         /\ enrichQueue' = enrichQueue (-) SetToBag({id})
         /\ enr' = [enr EXCEPT ![j].pc = "get_item", ![j].item_id = id,
                               ![j].state = "PROCESSING"]
    /\ UNCHANGED <<items, embeddings, embedQueue, emb, embOverlap, sends, ingestVars>>

\* the item query, the not-found error and the already-enriched skip
EnrGetItem(j) ==
    /\ enr[j].pc = "get_item"
    /\ LET found == ItemById(items, enr[j].item_id) IN
       IF found = {}
       THEN enr' = [enr EXCEPT ![j] = EnrFail(@, "Item not found")]
       ELSE \E it \in found :
              IF AlreadyEnriched(it)
              THEN enr' = [enr EXCEPT ![j] = EnrReturn([@ EXCEPT !.item = it], "skipped")]
              ELSE enr' = [enr EXCEPT ![j].item = it, ![j].progress = 20, ![j].pc = "search"]
    /\ UNCHANGED <<items, enrichQueue, embeddings, embedQueue, emb, embOverlap, sends, ingestVars>>

\* tmdb_service.search_item(title, year): the call to the provider
EnrSearch(j) ==
    /\ enr[j].pc = "search"
    /\ \E call \in TmdbCalls, answer \in SearchOutcomes :
         LET res == search_item(call, answer) IN
         IF res = <<>>
         THEN enr' = [enr EXCEPT ![j] = EnrReturn([@ EXCEPT !.provider = call], "no_results")]
         ELSE enr' = [enr EXCEPT ![j].provider = call, ![j].tmdb = res[1],
                                 ![j].progress = 60, ![j].pc = "commit"]
    /\ UNCHANGED <<items, enrichQueue, embeddings, embedQueue, emb, embOverlap, sends, ingestVars>>

\* the item's fields are set and db.commit() writes them to its row
EnrCommit(j) ==
    /\ enr[j].pc = "commit"
    /\ LET new == WithMetadata(enr[j].item, enr[j].tmdb) IN
       /\ items' = {IF it.id = new.id
                    THEN [it EXCEPT !.tmdb_id = new.tmdb_id, !.overview = new.overview,
                                    !.genres = new.genres]
                    ELSE it : it \in items}
       /\ enr' = [enr EXCEPT ![j].item = new, ![j].progress = 80, ![j].pc = "enqueue"]
    /\ UNCHANGED <<enrichQueue, embeddings, embedQueue, emb, embOverlap, sends, ingestVars>>

\* generate_item_embedding.delay(item.id); update_state(SUCCESS); return.
\* The publish raises when the broker cannot be reached, and the handler
\* reports FAILURE.
EnrEnqueue(j) ==
    /\ enr[j].pc = "enqueue"
    /\ \E published \in BOOLEAN :
         IF published
         THEN /\ embedQueue' = BagAdd(embedQueue, enr[j].item_id)
              /\ enr' = [enr EXCEPT ![j] = EnrReturn(@, "success")]
         ELSE /\ enr' = [enr EXCEPT ![j] = EnrFail(@, "Error connecting to broker")]
              /\ UNCHANGED embedQueue
    /\ UNCHANGED <<items, enrichQueue, embeddings, emb, embOverlap, sends, ingestVars>>

\* ---- generate_item_embedding
EmbStart(j) ==
    /\ emb[j].pc = "idle"
    /\ \A k \in EmbJobs : k < j => emb[k].pc # "idle"
    /\ \E id \in BagToSet(embedQueue) :
         /\ embedQueue' = embedQueue (-) SetToBag({id})
         /\ emb' = [emb EXCEPT ![j].pc = "get_item", ![j].item_id = id,
                               ![j].state = "PROCESSING"]
    /\ embOverlap' = (embOverlap \/ \E k \in EmbJobs \ {j} : EmbRunning(k))
    /\ UNCHANGED <<items, enrichQueue, embeddings, enr, sends, ingestVars>>

\* the item query and the not-found error
EmbGetItem(j) ==
    /\ emb[j].pc = "get_item"
    /\ LET found == ItemById(items, emb[j].item_id) IN
       IF found = {}
       THEN emb' = [emb EXCEPT ![j] = EnrFail(@, "Item not found")]
       ELSE \E it \in found :
              emb' = [emb EXCEPT ![j].item = it, ![j].progress = 20, ![j].pc = "check"]
    /\ UNCHANGED <<items, enrichQueue, embeddings, embedQueue, enr, embOverlap, sends, ingestVars>>

\* the query for an existing embedding of the item; the skip, or the text
EmbCheck(j) ==
    /\ emb[j].pc = "check"
    /\ IF ExistingEmbeddings(embeddings, emb[j].item_id) # {}
       THEN emb' = [emb EXCEPT ![j] = EnrReturn(@, "skipped")]
       ELSE emb' = [emb EXCEPT ![j].text = BuildText(emb[j].item), ![j].progress = 40,
                               ![j].pc = "generate"]
    /\ UNCHANGED <<items, enrichQueue, embeddings, embedQueue, enr, embOverlap, sends, ingestVars>>

\* embeddings_service.generate_embedding(embedding_text)
EmbGenerate(j) ==
    /\ emb[j].pc = "generate"
    /\ \E v \in GenerateOutcomes(emb[j].text) :
         emb' = [emb EXCEPT ![j].vector = v, ![j].progress = 80, ![j].pc = "store"]
    /\ UNCHANGED <<items, enrichQueue, embeddings, embedQueue, enr, embOverlap, sends, ingestVars>>

\* the Embedding row of the job (a fresh uuid4 id: the job's number)
NewEmbedding(j, job) ==
    [id |-> j, item_id |-> job.item_id, vector |-> job.vector, model |-> ModelName]

\* db.add(embedding); db.commit(); update_state(SUCCESS)
EmbStore(j) ==
    /\ emb[j].pc = "store"
    /\ embeddings' = embeddings \cup {NewEmbedding(j, emb[j])}
    /\ emb' = [emb EXCEPT ![j].state = "SUCCESS", ![j].progress = 100, ![j].pc = "return"]
    /\ UNCHANGED <<items, enrichQueue, embedQueue, enr, embOverlap, sends, ingestVars>>

\* the return value reads item.title: the commit has expired the item, so
\* the session selects its row again; the select answers, or it raises (the
\* connection is gone, the row was deleted through DELETE /items/{id}) and
\* the except handler runs
EmbReturn(j) ==
    /\ emb[j].pc = "return"
    /\ \E loaded \in BOOLEAN :
         IF loaded
         THEN emb' = [emb EXCEPT ![j] = EnrReturn(@, "success")]
         ELSE emb' = [emb EXCEPT ![j] = EnrFail(@, "Instance could not be refreshed")]
    /\ UNCHANGED <<items, enrichQueue, embeddings, embedQueue, enr, embOverlap, sends,
                   ingestVars>>

EnrichInit ==
    /\ providers = {"NETFLIX"}
    /\ items = SeedItems
    /\ events = EmptyBag
    /\ enrichQueue = SetToBag({it.id : it \in SeedItems})
    /\ ing = [j \in IngJobs |-> IdleJob]
    /\ overlap = FALSE
    /\ embeddings = {}
    /\ embedQueue = EmptyBag
    /\ enr = [j \in EnrJobs |-> IdleEnr]
    /\ emb = [j \in EmbJobs |-> IdleEmb]
    /\ embOverlap = FALSE
    /\ sends = 0
    /\ recs = {}
    /\ ref = [j \in RefJobs |-> IdleRef]
    /\ refOverlap = FALSE
    /\ calls = <<>>
    /\ tasks = [t \in TaskIds |-> NoTask]
    /\ reported = {}
    /\ applied = <<>>

EnrichNext ==
    \/ \E id \in ArgIds : SendEnrichTask(id)
    \/ \E id \in ArgIds : SendEmbedTask(id)
    \/ \E j \in EnrJobs :
        \/ EnrStart(j)
        \/ EnrGetItem(j)
        \/ EnrSearch(j)
        \/ EnrCommit(j)
        \/ EnrEnqueue(j)
    \/ \E j \in EmbJobs :
        \/ EmbStart(j)
        \/ EmbGetItem(j)
        \/ EmbCheck(j)
        \/ EmbGenerate(j)
        \/ EmbStore(j)
        \/ EmbReturn(j)

SpecEnrich == EnrichInit /\ [][EnrichNext]_vars

\* ------------------------------------------- properties of the embedding stage
EmbeddingsOf(id) == {e \in embeddings : e.item_id = id}

\* C4: an embedding-stage run on an item that has an embedding reports
\* skipped and leaves table embeddings as it is; stored rows are never
\* changed or removed; runs that do not overlap leave at most one row per
\* item, whatever happened to the item's metadata in between.
C4_SkipStep ==
    \A j \in EmbJobs :
        (/\ emb[j].pc = "check" /\ emb'[j].pc # "check"
         /\ EmbeddingsOf(emb[j].item_id) # {})
        => /\ emb'[j].status = "skipped" /\ emb'[j].state = "SUCCESS"
           /\ embeddings' = embeddings

C4_OneRowSequential ==
    ~embOverlap => \A id \in ArgIds : Cardinality(EmbeddingsOf(id)) <= 1

C4_EmbeddingOnce ==
    /\ [][C4_SkipStep]_vars
    /\ [][embeddings \subseteq embeddings']_vars
    /\ []C4_OneRowSequential

\* two runs one after the other on one item, its metadata changed in between
C4_Witness ==
    /\ ~embOverlap
    /\ emb[1].status = "success" /\ emb[2].status = "skipped"
    /\ emb[1].item_id = emb[2].item_id
    /\ emb[1].item # emb[2].item
    /\ Cardinality(EmbeddingsOf(emb[1].item_id)) = 1

\* C5: at most one Embedding per (item, model), in every reachable state.
C5_AtMostOneEmbedding ==
    \A id \in ArgIds :
        \A e1, e2 \in EmbeddingsOf(id) : e1.model = e2.model => e1 = e2

\* ---- the embedding stage is reached
\* every worker that can take a step eventually does (workers do not stop);
\* nobody is bound to submit jobs through the API
WorkerNext ==
    \/ \E j \in EnrJobs : EnrStart(j) \/ EnrGetItem(j) \/ EnrSearch(j) \/ EnrCommit(j) \/ EnrEnqueue(j)
    \/ \E j \in EmbJobs : EmbStart(j) \/ EmbGetItem(j) \/ EmbCheck(j) \/ EmbGenerate(j) \/ EmbStore(j)
                              \/ EmbReturn(j)

SpecEnrichLive == SpecEnrich /\ WF_vars(WorkerNext)

\* ---- the pipeline as the code drives it: the metadata jobs are those the
\* ingestion enqueued, one per created Item, and the embedding jobs those the
\* metadata stage enqueues (no route and no task sends either by name)
PipelineNext == WorkerNext

SpecPipeline == EnrichInit /\ [][PipelineNext]_vars

\* C11: an item whose metadata stage ended with status no_results
\* eventually has an embedding.
C11_NoResultsStillEmbedded ==
    \A it \in SeedItems :
        (\E j \in EnrJobs : enr[j].status = "no_results" /\ enr[j].item_id = it.id)
            ~> (EmbeddingsOf(it.id) # {})


\* C15: a metadata-stage job whose provider call failed (the request
\* raised, or no API key is set) ends its search step in SUCCESS with status
\* no_results, and is never in FAILURE.
C15_SearchStep ==
    \A j \in EnrJobs :
        (enr[j].pc = "search" /\ enr'[j].pc # "search" /\ enr'[j].provider \in TmdbFailures)
            => /\ enr'[j].pc = "done"
               /\ enr'[j].state = "SUCCESS"
               /\ enr'[j].status = "no_results"

C15_NoFailure ==
    \A j \in EnrJobs : enr[j].provider \in TmdbFailures => enr[j].state = "SUCCESS"

catalogVars == <<providers, items, events, enrichQueue, ing, overlap,
                 embeddings, embedQueue, enr, emb, embOverlap, sends, serviceVars>>

TopN == 20         \* similarities[:20]
Dim == 2           \* components of a stored vector (1536 in the schema)
MaxCand == 22      \* embeddings of never-watched items in the catalog

Reason == "Based on your recent viewing history"
Algorithm == "content_based"
NoUser == "u0"     \* a user id no User row has

\* ---- vector arithmetic (numpy), exact: a float is a fraction, a cosine is
\* the signed square root of a fraction in lowest terms
Abs(x) == IF x < 0 THEN -x ELSE x
Sign(x) == IF x < 0 THEN -1 ELSE IF x = 0 THEN 0 ELSE 1
Min(a, b) == IF a <= b THEN a ELSE b

RECURSIVE GCD(_, _)
GCD(a, b) == IF b = 0 THEN a ELSE GCD(b, a % b)

Dot(a, b) ==
    LET RECURSIVE D(_)
        D(k) == IF k = 0 THEN 0 ELSE a[k] * b[k] + D(k - 1)
    IN D(Len(a))

\* sum over axis 0 of a list of vectors
RECURSIVE VecSum(_)
VecSum(vs) ==
    IF vs = <<>> THEN [k \in 1..Dim |-> 0]
    ELSE [k \in 1..Dim |-> Head(vs)[k] + VecSum(Tail(vs))[k]]

Centroid_First(vs) == [num |-> vs[1], den |-> 1]

\* np.mean(vectors, axis=0): component k is num[k] / den
Centroid(vs) == [num |-> VecSum(vs), den |-> Len(vs)]

\* the value sgn * sqrt(num / den)
Cosine(sgn, num, den) ==
    IF sgn = 0 THEN [sgn |-> 0, num |-> 0, den |-> 1]
    ELSE LET g == GCD(num, den) IN [sgn |-> sgn, num |-> num \div g, den |-> den \div g]

\* cosine_similarity(vec1, vec2) for vec1 a fraction vector: 0.0 when a norm
\* is zero, else dot / (norm1 * norm2); the common denominator cancels
cosine_similarity(p, v) ==
    LET d == Dot(p.num, v)
        n1 == Dot(p.num, p.num)
        n2 == Dot(v, v)
    IN IF n1 = 0 \/ n2 = 0 THEN Cosine(0, 0, 1)
       ELSE Cosine(Sign(d), d * d, n1 * n2)

\* x < y for two cosines
ScoreLess(x, y) ==
    LET a == x.sgn * x.num * y.den
        b == y.sgn * y.num * x.den
    IN a < b

\* ---- query results
\* rows of a table in the order a scan returns them: no ORDER BY, so the
\* order is the storage's; ascending and descending id stand for it
ScanOrders == {"asc", "desc"}

RECURSIVE RowsAsc(_)
RowsAsc(S) ==
    IF S = {} THEN <<>>
    ELSE LET m == CHOOSE x \in S : \A y \in S : x.id <= y.id
         IN <<m>> \o RowsAsc(S \ {m})

Reverse(sq) == [k \in 1..Len(sq) |-> sq[Len(sq) + 1 - k]]

Scan(S, ord) == IF ord = "asc" THEN RowsAsc(S) ELSE Reverse(RowsAsc(S))

UserExists(u) == u \in Users

\* Event.user_id == user_id, event_type == "WATCHED", occurred_at >= now - 30 days
RecentWatched_AnyType(tbl, u) ==
    {e \in BagToSet(tbl) : e.user_id = u /\ e.occurred_at = "recent"}

RecentWatched(tbl, u) ==
    {e \in BagToSet(tbl) : e.user_id = u /\ e.event_type = "WATCHED"
                            /\ e.occurred_at = "recent"}

\* Embedding.item_id.in_(watched_item_ids)
WatchedEmbeddings(tbl, ids) == {e \in tbl : e.item_id \in ids}

\* ~Embedding.item_id.in_(watched_item_ids)
CandidateEmbeddings(tbl, ids) == {e \in tbl : e.item_id \notin ids}

\* similarities.sort(key=score, reverse=True): stable, descending
RECURSIVE InsertDesc(_, _)
InsertDesc(x, sorted) ==
    IF sorted = <<>> THEN <<x>>
    ELSE IF ScoreLess(Head(sorted).score, x.score) THEN <<x>> \o sorted
         ELSE <<Head(sorted)>> \o InsertDesc(x, Tail(sorted))

SortDesc_Unsorted(sq) == sq

RECURSIVE SortDesc(_)
SortDesc(sq) ==
    IF sq = <<>> THEN <<>>
    ELSE InsertDesc(sq[Len(sq)], SortDesc(SubSeq(sq, 1, Len(sq) - 1)))

\* similarities[:20]
Top(sq) == SubSeq(sq, 1, Min(TopN, Len(sq)))

\* the Recommendation rows built from the top of the list (fresh uuid4 ids:
\* the job and the position)
NewRecommendations(j, u, sims) ==
    {[id |-> <<j, k>>, user_id |-> u, item_id |-> Top(sims)[k].item_id,
      score |-> Top(sims)[k].score, reason |-> Reason, algorithm |-> Algorithm]
     : k \in 1..Len(Top(sims))}

DeleteTargets_None(tbl, u) == {}

\* the rows DELETE FROM recommendations WHERE user_id = :u finds
DeleteTargets(tbl, u) == {r \in tbl : r.user_id = u}

AfterDelete_Autocommit(tbl, del) == tbl \ del

\* the committed table after the job's DELETE statement: the statement runs
\* in the job's open transaction and nothing is committed yet
AfterDelete(tbl, del) == tbl

RefRunning(j) == ref[j].pc \notin {"idle", "done", "failed"}

RefReturn(job, st) ==
    [job EXCEPT !.pc = "done", !.state = "SUCCESS", !.progress = 100, !.status = st]

\* the except clause; db.close() rolls the open transaction back
\* (failed_at keeps the place of the failure, as the traceback does)
RefFail(job, msg) ==
    [job EXCEPT !.pc = "failed", !.state = "FAILURE", !.error = msg,
                !.failed_at = job.pc, !.targets = {}, !.deleted = {}, !.new = {}]

\* ---- refresh_user_recommendations
\* a worker takes the job: update_state(PROCESSING, 0), the user query
RefStart(j) ==
    /\ ref[j].pc = "idle"
    /\ \A k \in RefJobs : k < j => ref[k].pc # "idle"
    /\ \E u \in Users \cup {NoUser} :
         IF UserExists(u)
         THEN ref' = [ref EXCEPT ![j].user_id = u, ![j].state = "PROCESSING",
                                 ![j].progress = 20, ![j].pc = "events"]
         ELSE ref' = [ref EXCEPT ![j] = RefFail([@ EXCEPT !.user_id = u], "User not found")]
    /\ refOverlap' = (refOverlap \/ \E k \in RefJobs \ {j} : RefRunning(k))
    /\ UNCHANGED <<recs, catalogVars>>

\* the query for the user's WATCHED events of the last 30 days
RefEvents(j) ==
    /\ ref[j].pc = "events"
    /\ LET user_events == RecentWatched(events, ref[j].user_id) IN
       IF user_events = {}
       THEN ref' = [ref EXCEPT ![j] = RefReturn(@, "no_data")]
       ELSE ref' = [ref EXCEPT ![j].watched_item_ids = {e.item_id : e \in user_events},
                               ![j].progress = 40, ![j].pc = "watched"]
    /\ UNCHANGED <<recs, refOverlap, catalogVars>>

\* the query for the embeddings of the watched items, and their centroid
RefWatched(j) ==
    /\ ref[j].pc = "watched"
    /\ LET watched_embeddings == WatchedEmbeddings(embeddings, ref[j].watched_item_ids) IN
       IF watched_embeddings = {}
       THEN ref' = [ref EXCEPT ![j] = RefReturn(@, "no_embeddings")]
       ELSE \E ord \in ScanOrders :
              LET vectors == [k \in 1..Cardinality(watched_embeddings) |->
                                 Scan(watched_embeddings, ord)[k].vector]
              IN ref' = [ref EXCEPT ![j].user_preference = Centroid(vectors),
                                    ![j].progress = 60, ![j].pc = "candidates"]
    /\ UNCHANGED <<recs, refOverlap, catalogVars>>

\* the query for all other embeddings, their scores and the sort
RefCandidates(j) ==
    /\ ref[j].pc = "candidates"
    /\ LET all_embeddings == CandidateEmbeddings(embeddings, ref[j].watched_item_ids) IN
       IF all_embeddings = {}
       THEN ref' = [ref EXCEPT ![j] = RefReturn(@, "no_candidates")]
       ELSE \E ord \in ScanOrders :
              LET rows == Scan(all_embeddings, ord)
                  similarities == [k \in 1..Len(rows) |->
                      [item_id |-> rows[k].item_id,
                       score |-> cosine_similarity(ref[j].user_preference, rows[k].vector)]]
              IN ref' = [ref EXCEPT ![j].similarities = SortDesc(similarities),
                                    ![j].progress = 80, ![j].pc = "delete"]
    /\ UNCHANGED <<recs, refOverlap, catalogVars>>

\* rows another job's open transaction has deleted (and so locked)
LockedByOthers(j) == UNION {ref[k].deleted : k \in RefJobs \ {j}}

\* db.query(Recommendation).filter(user_id).delete(): the statement finds
\* the rows committed when it starts ...
RefDeleteBegin(j) ==
    /\ ref[j].pc = "delete"
    /\ ref' = [ref EXCEPT ![j].targets = DeleteTargets(recs, ref[j].user_id),
                          ![j].pc = "deleting"]
    /\ UNCHANGED <<recs, refOverlap, catalogVars>>

\* ... waits for the transactions that hold a lock on one of them, and
\* deletes those that still exist
RefDeleteEnd(j) ==
    /\ ref[j].pc = "deleting"
    /\ ref[j].targets \cap LockedByOthers(j) = {}
    /\ LET del == ref[j].targets \cap recs IN
       /\ recs' = AfterDelete(recs, del)
       /\ ref' = [ref EXCEPT ![j].deleted = del, ![j].targets = {}, ![j].pc = "insert"]
    /\ UNCHANGED <<refOverlap, catalogVars>>

\* the rows are built, db.add_all, db.commit(): the deletes and the inserts
\* of the transaction become visible together
RefCommit(j) ==
    /\ ref[j].pc = "insert"
    /\ LET new == NewRecommendations(j, ref[j].user_id, ref[j].similarities) IN
       /\ recs' = (recs \ ref[j].deleted) \cup new
       /\ ref' = [ref EXCEPT ![j] = RefReturn([@ EXCEPT !.new = new, !.deleted = {}], "success")]
    /\ UNCHANGED <<refOverlap, catalogVars>>

\* the worker process is killed at the hard time limit (task_time_limit):
\* the job ends in FAILURE and its connection, with the open transaction,
\* is dropped
RefKill(j) ==
    /\ RefRunning(j)
    /\ ref' = [ref EXCEPT ![j] = RefFail(@, "TimeLimitExceeded")]
    /\ UNCHANGED <<recs, refOverlap, catalogVars>>

\* ---- the stored data a refresh starts from
RefItem(k) == <<1, k>>      \* items the user may have watched
CandItem(k) == <<2, k>>     \* items nobody watched

\* the stored vector of an item
Vec(a, b) == [k \in 1..Dim |-> IF k = 1 THEN a ELSE IF k = 2 THEN b ELSE 0]
WatchVec(k) == IF k = 1 THEN Vec(1, 0) ELSE IF k = 2 THEN Vec(-1, 2) ELSE Vec(1, 1)
CandVecs == << Vec(1, 0), Vec(0, 1), Vec(1, 1), Vec(-1, 0), Vec(0, 0), Vec(2, 0),
               Vec(1, 2), Vec(-1, -1) >>
CandVec(k) == CandVecs[((k - 1) % Len(CandVecs)) + 1]

EventRow(k, type, when) ==
    [user_id |-> "u1", item_id |-> RefItem(k), event_type |-> type, occurred_at |-> when]

\* events of u1: item 1 watched w1 times and item 2 w2 times in the window,
\* item 3 watched before the window or liked in it
EventsChoice(w1, w2, x) ==
    [e \in (IF w1 > 0 THEN {EventRow(1, "WATCHED", "recent")} ELSE {})
           \cup (IF w2 > 0 THEN {EventRow(2, "WATCHED", "recent")} ELSE {})
           \cup (IF x = "old" THEN {EventRow(3, "WATCHED", "old")} ELSE {})
           \cup (IF x = "liked" THEN {EventRow(3, "LIKED", "recent")} ELSE {})
     |-> IF e.item_id = RefItem(1) THEN w1 ELSE 1]

EmbeddingRow(id, item, vec) ==
    [id |-> id, item_id |-> item, vector |-> vec, model |-> ModelName]

\* embeddings: of the first ew of the items 1..3, of nc never-watched items,
\* and (dup) a second row for the first of these
EmbeddingsChoice(ew, nc, dup) ==
    {EmbeddingRow(k, RefItem(k), WatchVec(k)) : k \in 1..ew}
    \cup {EmbeddingRow(10 + k, CandItem(k), CandVec(k)) : k \in 1..nc}
    \cup (IF dup /\ nc > 0 THEN {EmbeddingRow(10, CandItem(1), CandVec(2))} ELSE {})

\* a row stored while the Ollama service was the configured one: its mock
\* fallback has the length of the OpenAI vectors
OllamaModelName == "ollama:nomic-embed-text"
OllamaRow == [id |-> 9, item_id |-> CandItem(3), vector |-> Vec(1, 1), model |-> OllamaModelName]

\* rows left by an earlier refresh
PriorRecs ==
    {[id |-> <<0, k>>, user_id |-> "u1", item_id |-> CandItem(k),
      score |-> Cosine(1, 1, 1), reason |-> Reason, algorithm |-> Algorithm] : k \in 1..2}

CandCounts == {0, 1, 2, MaxCand}

RefreshInit ==
    /\ providers = {"NETFLIX"}
    /\ items = {}
    /\ enrichQueue = EmptyBag
    /\ ing = [j \in IngJobs |-> IdleJob]
    /\ overlap = FALSE
    /\ embedQueue = EmptyBag
    /\ enr = [j \in EnrJobs |-> IdleEnr]
    /\ emb = [j \in EmbJobs |-> IdleEmb]
    /\ embOverlap = FALSE
    /\ sends = 0
    /\ \E w1 \in 0..2, w2 \in 0..1, x \in {"none", "old", "liked"} :
         /\ w2 <= w1
         /\ events = EventsChoice(w1, w2, x)
    /\ \E ew \in 0..3, nc \in CandCounts, dup \in BOOLEAN, other \in BOOLEAN :
         /\ dup => nc = 2
         /\ other => nc = 1
         /\ embeddings = EmbeddingsChoice(ew, nc, dup) \cup (IF other THEN {OllamaRow} ELSE {})
    /\ recs \in {{}, PriorRecs}
    /\ ref = [j \in RefJobs |-> IdleRef]
    /\ refOverlap = FALSE
    /\ calls = <<>>
    /\ tasks = [t \in TaskIds |-> NoTask]
    /\ reported = {}
    /\ applied = <<>>

RefreshNext ==
    \E j \in RefJobs :
        \/ RefStart(j)
        \/ RefEvents(j)
        \/ RefWatched(j)
        \/ RefCandidates(j)
        \/ RefDeleteBegin(j)
        \/ RefDeleteEnd(j)
        \/ RefCommit(j)
        \/ RefKill(j)

SpecRefresh == RefreshInit /\ [][RefreshNext]_vars

\* ---- ingestion with the metadata stage at work: workers take the jobs the
\* ingestion jobs enqueue, while other ingestion jobs are still running, and
\* read their Item (what a job does with the Item it has read is SpecEnrich's)
MetadataNext ==
    \E j \in EnrJobs : EnrStart(j) \/ EnrGetItem(j)

IngestEnrichNext == IngNext \/ MetadataNext

SpecIngestEnrich == IngInit /\ [][IngestEnrichNext]_vars

\* ---- ingestion for a user id no User row has
\* The route has looked the user up, and DELETE /users/{user_id} removes the
\* row before a worker picks the job up: the task itself never reads users.
IngStartNoUser(j) == IngStartAs(j, {NoUser})

NoUserNext ==
    \E j \in IngJobs :
        \/ IngStartNoUser(j)
        \/ IngProviderLookup(j)
        \/ IngProviderInsert(j)
        \/ IngLookup(j)
        \/ IngInsert(j)
        \/ IngCommit(j)
        \/ IngFinish(j)

SpecIngestNoUser == IngInit /\ [][NoUserNext]_vars

\* ---- refreshes while ingestion goes on
\* an ingestion job commits a WATCHED event of u1 for an item u1 had not
\* watched in the window
EventCommitted ==
    /\ \E k \in 1..3 :
         LET e == EventRow(k, "WATCHED", "recent") IN
         /\ CopiesIn(e, events) = 0
         /\ events' = BagAdd(events, e)
    /\ UNCHANGED <<providers, items, enrichQueue, ing, overlap, embeddings, embedQueue,
                   enr, emb, embOverlap, sends, refreshVars, serviceVars>>

RefreshIngestNext == RefreshNext \/ EventCommitted

\* the stored data of a small catalog
RefreshIngestInit == RefreshInit /\ Cardinality(embeddings) <= 3

SpecRefreshIngest == RefreshIngestInit /\ [][RefreshIngestNext]_vars

\* ----------------------------------------------------- embeddings services
\* OpenAIEmbeddingsService and OllamaEmbeddingsService, called directly.
\* what the services leave alone
tableVars == <<providers, items, events, enrichQueue, ing, overlap, embeddings,
               embedQueue, enr, emb, embOverlap, sends, refreshVars, tasks, reported,
               applied>>

MaxCalls == 2      \* calls in a history
MaxTexts == 2      \* texts in one generate_embeddings call

Texts == {"A", "B"}

\* a service instance: its class and whether settings.openai_api_key is set
\* (the Ollama service reads no key)
Services ==
    {[kind |-> "openai", has_key |-> TRUE], [kind |-> "openai", has_key |-> FALSE],
     [kind |-> "ollama", has_key |-> FALSE]}

\* what happens to one request to the provider: a usable answer; the
\* transport raises (connection error, timeout); raise_for_status raises
\* (401, 429, 5xx); the body is not JSON or has no embedding key in it
\* (json() / KeyError / IndexError); or the body is a 2xx JSON document
\* whose embedding key holds something else than the model's vector, here
\* the empty list
RaisingOutcomes == {"network", "http_status", "no_embedding_key"}
UpstreamFailures == RaisingOutcomes \cup {"empty_embedding"}
UpstreamOutcomes == {"ok"} \cup UpstreamFailures

\* length of range(1536) in _generate_mock_embedding
MockDims == 1536
\* length of the vector the provider's model answers with:
\* text-embedding-ada-002 1536, nomic-embed-text 768 (config.pgvector_dims)
OpenAIDims == 1536
NomicDims == 768
NativeDims(kind) == IF kind = "openai" THEN OpenAIDims ELSE NomicDims

\* hashlib.md5(text.encode()).digest(): 16 bytes that depend on the text
\* only; the hash itself is stood for by a fixed table of byte values
DigestLen == 16
TextCode(text) == IF text = "A" THEN 65 ELSE 66
Md5Digest(text) == [k \in 1..DigestLen |-> (TextCode(text) * (k + 6) * 37 + 11 * k) % 256]

\* (byte_val / 255.0) * 2 - 1, as the numerator over 255
Normalized(b) == 2 * b - 255

\* a vector is its length and the values it repeats cyclically: component
\* i (from 0) of a mock vector is Normalized(digest[i % 16])
generate_mock_embedding(text) ==
    [origin |-> "mock", dims |-> MockDims,
     cycle |-> [k \in 1..DigestLen |-> Normalized(Md5Digest(text)[k])]]

Component(v, i) == v.cycle[(i % Len(v.cycle)) + 1]

\* data["data"][0]["embedding"] / data["embedding"]: the provider's vector
\* for the text, opaque here
ProviderEmbedding(self, text) ==
    [origin |-> "provider", dims |-> NativeDims(self.kind), cycle |-> <<self.kind, text>>]

\* the value under the embedding key of the response body
BodyEmbedding(self, outcome, text) ==
    IF outcome = "empty_embedding" THEN [origin |-> "provider", dims |-> 0, cycle |-> <<>>]
    ELSE ProviderEmbedding(self, text)

\* does this call take the fallback path: no API key, or an exception
\* inside the try block
FallsBack(self, outcome) ==
    (self.kind = "openai" /\ ~self.has_key) \/ outcome \in RaisingOutcomes

generate_embedding_ZeroOnTimeout(self, outcome, text) ==
    IF outcome = "network" THEN [origin |-> "mock", dims |-> MockDims, cycle |-> <<0>>]
    ELSE IF FallsBack(self, outcome) THEN generate_mock_embedding(text)
    ELSE BodyEmbedding(self, outcome, text)

\* generate_embedding(text): the mock vector without an API key and on any
\* exception, else whatever the body holds under the embedding key
generate_embedding(self, outcome, text) ==
    IF FallsBack(self, outcome) THEN generate_mock_embedding(text)
    ELSE BodyEmbedding(self, outcome, text)

\* generate_embeddings(texts): OpenAI sends one request for all texts,
\* Ollama calls generate_embedding for each text
generate_embeddings(self, outcomes, texts) ==
    [k \in 1..Len(texts) |->
        generate_embedding(self, IF self.kind = "openai" THEN outcomes[1] ELSE outcomes[k],
                           texts[k])]

\* the requests a call makes: none without a key, one per call for OpenAI,
\* one per text for Ollama
Requests(self, n) ==
    IF self.kind = "openai" THEN (IF self.has_key THEN 1 ELSE 0) ELSE n

OutcomeSeqs(n) == [1..n -> UpstreamOutcomes]
TextSeqs == UNION {[1..n -> Texts] : n \in 0..MaxTexts}

\* embeddings_service.generate_embedding(text)
CallGenerateEmbedding ==
    /\ Len(calls) < MaxCalls
    /\ \E self \in Services, text \in Texts :
         \E outs \in OutcomeSeqs(Requests(self, 1)) :
         LET outcome == IF outs = <<>> THEN "none" ELSE outs[1] IN
         calls' = Append(calls, [self |-> self, fn |-> "generate_embedding",
                                 texts |-> <<text>>, outcomes |-> <<outcome>>,
                                 result |-> <<generate_embedding(self, outcome, text)>>])
    /\ UNCHANGED tableVars

\* embeddings_service.generate_embeddings(texts)
CallGenerateEmbeddings ==
    /\ Len(calls) < MaxCalls
    /\ \E self \in Services, texts \in TextSeqs :
         \E outs \in OutcomeSeqs(Requests(self, Len(texts))) :
            LET outcomes == [k \in 1..Len(texts) |->
                                IF outs = <<>> THEN "none"
                                ELSE IF self.kind = "openai" THEN outs[1] ELSE outs[k]]
            IN calls' = Append(calls, [self |-> self, fn |-> "generate_embeddings",
                                       texts |-> texts, outcomes |-> outcomes,
                                       result |-> generate_embeddings(self, outcomes, texts)])
    /\ UNCHANGED tableVars

EmbedInit ==
    /\ providers = {}
    /\ items = {}
    /\ events = EmptyBag
    /\ enrichQueue = EmptyBag
    /\ ing = [j \in IngJobs |-> IdleJob]
    /\ overlap = FALSE
    /\ embeddings = {}
    /\ embedQueue = EmptyBag
    /\ enr = [j \in EnrJobs |-> IdleEnr]
    /\ emb = [j \in EmbJobs |-> IdleEmb]
    /\ embOverlap = FALSE
    /\ sends = 0
    /\ recs = {}
    /\ ref = [j \in RefJobs |-> IdleRef]
    /\ refOverlap = FALSE
    /\ calls = <<>>
    /\ tasks = [t \in TaskIds |-> NoTask]
    /\ reported = {}
    /\ applied = <<>>

EmbedNext == CallGenerateEmbedding \/ CallGenerateEmbeddings

SpecEmbed == EmbedInit /\ [][EmbedNext]_vars

\* ------------------------------------------------------------- jobs API
\* A task as the result backend and the routes of api/jobs.py see it.
\* what the jobs API leaves alone
dataVars == <<providers, items, events, enrichQueue, ing, overlap, embeddings,
              embedQueue, enr, emb, embOverlap, sends, refreshVars, calls, applied>>

ReadyStates_Failed == {"FAILURE", "REVOKED"}

\* celery.states.READY_STATES: what AsyncResult.ready() tests
ReadyStates == {"SUCCESS", "FAILURE", "REVOKED"}

\* the progress values the task bodies pass to update_state(PROCESSING)
ProgressTicks == {0, 20, 40, 60, 80}

\* the tasks the routes submit, by name, and their positional arguments
TaskNames ==
    {"app.tasks.ingestion.ingest_netflix_csv",
     "app.tasks.recommendations.refresh_user_recommendations"}
TaskArgs(name) ==
    IF name = "app.tasks.ingestion.ingest_netflix_csv" THEN <<"u1", "csv_content">>
    ELSE <<"u1">>

\* celery_app.send_task(...): the message is on the queue; the backend has
\* nothing for the id yet, which reads as PENDING
SendTask(t) ==
    /\ tasks[t].pc = "unsent"
    /\ \E name \in TaskNames :
         tasks' = [tasks EXCEPT ![t].pc = "queued", ![t].name = name,
                                ![t].args = TaskArgs(name)]
    /\ UNCHANGED <<reported, dataVars>>

\* a worker takes the message: a revoked id is discarded and marked
\* REVOKED, any other task is marked STARTED (task_track_started=True)
WorkerReceive(t) ==
    /\ tasks[t].pc = "queued"
    /\ IF tasks[t].revoked
       THEN tasks' = [tasks EXCEPT ![t].pc = "done", ![t].state = "REVOKED",
                                   ![t].result = "exception"]
       ELSE tasks' = [tasks EXCEPT ![t].pc = "running", ![t].state = "STARTED"]
    /\ UNCHANGED <<reported, dataVars>>

\* current_task.update_state(state="PROCESSING", meta={"progress": p})
UpdateState(t) ==
    /\ tasks[t].pc = "running"
    /\ \E p \in ProgressTicks :
         /\ tasks[t].state = "PROCESSING" => p > tasks[t].progress
         /\ tasks' = [tasks EXCEPT ![t].state = "PROCESSING", ![t].progress = p,
                                   ![t].result = "progress_meta"]
    /\ UNCHANGED <<reported, dataVars>>

\* update_state(state="SUCCESS", meta={"progress": 100}): the backend now
\* holds state SUCCESS with the meta as the task's result
TaskSucceeds(t) ==
    /\ tasks[t].pc = "running"
    /\ tasks[t].state = "PROCESSING"
    /\ tasks' = [tasks EXCEPT ![t].pc = "returning", ![t].state = "SUCCESS",
                              ![t].progress = 100, ![t].result = "progress_meta"]
    /\ UNCHANGED <<reported, dataVars>>

\* the body returns its result dict and the worker stores it with SUCCESS
TaskReturns(t) ==
    /\ tasks[t].pc = "returning"
    /\ tasks' = [tasks EXCEPT ![t].pc = "done", ![t].state = "SUCCESS",
                              ![t].result = "return_value"]
    /\ UNCHANGED <<reported, dataVars>>

\* the except handler: update_state(state="FAILURE", meta={"error": str(e)})
TaskFails(t) ==
    /\ tasks[t].pc = "running"
    /\ tasks[t].state = "PROCESSING"
    /\ tasks' = [tasks EXCEPT ![t].pc = "raising", ![t].state = "FAILURE",
                              ![t].result = "error_meta"]
    /\ UNCHANGED <<reported, dataVars>>

\* the handler's raise: the worker stores FAILURE with the exception
TaskRaises(t) ==
    /\ tasks[t].pc = "raising"
    /\ tasks' = [tasks EXCEPT ![t].pc = "done", ![t].state = "FAILURE",
                              ![t].result = "exception"]
    /\ UNCHANGED <<reported, dataVars>>

\* DELETE /jobs/{task_id}, once per id: a message for a ready task, else
\* control.revoke(task_id, terminate=True)
cancel_job(t) ==
    /\ tasks[t].cancel_response = "none"
    /\ IF tasks[t].state \in ReadyStates
       THEN tasks' = [tasks EXCEPT
                        ![t].cancel_response = "Job already completed, cannot cancel"]
       ELSE tasks' = [tasks EXCEPT ![t].revoked = TRUE,
                                   ![t].cancel_response = "cancelled successfully"]
    /\ UNCHANGED <<reported, dataVars>>

\* the worker acts on the revoke of a task it is executing: the process is
\* terminated and the task marked REVOKED
WorkerTerminates(t) ==
    /\ tasks[t].pc \in {"running", "returning", "raising"}
    /\ tasks[t].revoked
    /\ tasks' = [tasks EXCEPT ![t].pc = "done", ![t].state = "REVOKED",
                              ![t].result = "exception"]
    /\ UNCHANGED <<reported, dataVars>>

\* task_time_limit: the worker kills the process of a task that runs longer
\* and stores FAILURE (TimeLimitExceeded); the soft limit raises inside the
\* body and ends in its except handler (TaskFails)
TimeLimit(t) ==
    /\ tasks[t].pc \in {"running", "returning", "raising"}
    /\ tasks' = [tasks EXCEPT ![t].pc = "done", ![t].state = "FAILURE",
                              ![t].result = "exception"]
    /\ UNCHANGED <<reported, dataVars>>

\* the "status" of the response of GET /jobs/{task_id}: task_result.state
get_job_status(t) == tasks[t].state

\* the "result" of the response: task_result.result of a task that is ready
\* and successful, no such key otherwise
ResponseResult(t) == IF tasks[t].state = "SUCCESS" THEN tasks[t].result ELSE "none"

MaxPolls == 1      \* status responses kept

\* GET /jobs/{task_id}, for any id
GetJobStatus(t) ==
    /\ Cardinality(reported) < MaxPolls
    /\ reported' = reported \cup {[task_id |-> t, status |-> get_job_status(t),
                                     result |-> ResponseResult(t)]}
    /\ reported' # reported
    /\ UNCHANGED <<tasks, dataVars>>

\* task_result.info of a ready task that was not successful, as retry_job
\* gets it: the exception the worker stored, which has no get(); or, between
\* the handler's update_state and its raise, the meta {"error": ...}, which
\* the backend hands over as a dict or fails to decode as an exception
InfoKinds(t) ==
    IF tasks[t].result = "error_meta" THEN {"dict_without_name", "raises"}
    ELSE {"raises"}

\* original_task.get("name", "unknown") and original_task.get("args", [])
RetryName(t, info) == IF info = "dict_with_name" THEN tasks[t].name ELSE "unknown"
RetryArgs(t, info) == IF info = "dict_with_name" THEN tasks[t].args ELSE <<>>

\* the answers of retry_job that stand for a send_task
RetryAttempts == {"Job retry initiated", "error_500"}

\* POST /jobs/{task_id}/retry, once per id: messages for a task that is not
\* ready or was successful; else send_task with what task_result.info holds,
\* and a 500 when reading it raises
retry_job(t) ==
    /\ tasks[t].retry_response = "none"
    /\ IF tasks[t].state \notin ReadyStates
       THEN tasks' = [tasks EXCEPT
                        ![t].retry_response = "Job is still running, cannot retry"]
       ELSE IF tasks[t].state = "SUCCESS"
       THEN tasks' = [tasks EXCEPT
                        ![t].retry_response = "Job was successful, no need to retry"]
       ELSE \E info \in InfoKinds(t) :
              IF info = "raises"
              THEN tasks' = [tasks EXCEPT ![t].retry_response = "error_500"]
              ELSE \E u \in TaskIds :
                     /\ tasks[u].pc = "unsent"
                     /\ \A w \in TaskIds : w < u => tasks[w].pc # "unsent"
                     /\ tasks' = [tasks EXCEPT
                                    ![t].retry_response = "Job retry initiated",
                                    ![u].pc = "queued",
                                    ![u].name = RetryName(t, info),
                                    ![u].args = RetryArgs(t, info),
                                    ![u].retry_of = t]
    /\ UNCHANGED <<reported, dataVars>>

JobsInit ==
    /\ providers = {}
    /\ items = {}
    /\ events = EmptyBag
    /\ enrichQueue = EmptyBag
    /\ ing = [j \in IngJobs |-> IdleJob]
    /\ overlap = FALSE
    /\ embeddings = {}
    /\ embedQueue = EmptyBag
    /\ enr = [j \in EnrJobs |-> IdleEnr]
    /\ emb = [j \in EmbJobs |-> IdleEmb]
    /\ embOverlap = FALSE
    /\ sends = 0
    /\ recs = {}
    /\ ref = [j \in RefJobs |-> IdleRef]
    /\ refOverlap = FALSE
    /\ calls = <<>>
    /\ tasks = [t \in TaskIds |-> NoTask]
    /\ reported = {}
    /\ applied = <<>>

JobsNext ==
    \E t \in TaskIds :
        \/ SendTask(t)
        \/ WorkerReceive(t)
        \/ UpdateState(t)
        \/ TaskSucceeds(t)
        \/ TaskReturns(t)
        \/ TaskFails(t)
        \/ TaskRaises(t)
        \/ cancel_job(t)
        \/ retry_job(t)
        \/ WorkerTerminates(t)
        \/ TimeLimit(t)
        \/ GetJobStatus(t)

SpecJobs == JobsInit /\ [][JobsNext]_vars

\* what the worker's main process keeps doing whatever the task bodies do: it
\* takes messages and enforces revokes and time limits; a task body may
\* block for ever (a request, a row lock)
JobsWorkerNext ==
    \E t \in TaskIds :
        \/ WorkerReceive(t)
        \/ WorkerTerminates(t)
        \/ TimeLimit(t)

SpecJobsLive == SpecJobs /\ WF_vars(JobsWorkerNext)

\* ------------------------------------------------- functions and routes
\* cosine_similarity as numpy computes it, and the routes of the application,
\* each applied to inputs and the answer recorded.
\* what an application leaves alone
stateVars == <<providers, items, events, enrichQueue, ing, overlap, embeddings,
               embedQueue, enr, emb, embOverlap, sends, refreshVars, calls, tasks,
               reported>>

MaxApplied == 2    \* applications in a history

\* bits of the significand of a float in the model (53 in binary64); every
\* operation rounds its exact result to the nearest float, ties to even
Precision == 7

RECURSIVE Pow2(_)
Pow2(k) == IF k = 0 THEN 1 ELSE 2 * Pow2(k - 1)

\* a float is sgn * m * 2^e with m = 0 or 2^(Precision-1) <= m < 2^Precision
FloatZero == [sgn |-> 0, m |-> 0, e |-> 0]

\* the float nearest to num / den * 2^e, for num, den > 0
RECURSIVE Round(_, _, _)
Round(num, den, e) ==
    IF num >= den * Pow2(Precision) THEN Round(num, 2 * den, e + 1)
    ELSE IF num < den * Pow2(Precision - 1) THEN Round(2 * num, den, e - 1)
    ELSE LET q == num \div den
             r == num % den
             m == IF 2 * r > den \/ (2 * r = den /\ q % 2 = 1) THEN q + 1 ELSE q
         IN IF m = Pow2(Precision) THEN [m |-> Pow2(Precision - 1), e |-> e + 1]
            ELSE [m |-> m, e |-> e]

\* np.linalg.norm: the float nearest to the square root of the integer d > 0
FloatSqrt(d) ==
    LET k == CHOOSE n \in 0..Precision :
                 /\ d * Pow2(2 * n) >= Pow2(2 * Precision - 2)
                 /\ d * Pow2(2 * n) < Pow2(2 * Precision)
        x == d * Pow2(2 * k)
        f == CHOOSE n \in Pow2(Precision - 1)..Pow2(Precision) :
                 n * n <= x /\ (n + 1) * (n + 1) > x
        m == IF (2 * f + 1) * (2 * f + 1) < 4 * x THEN f + 1 ELSE f
    IN IF m = Pow2(Precision) THEN [m |-> Pow2(Precision - 1), e |-> 1 - k]
       ELSE [m |-> m, e |-> 0 - k]

\* norm1 * norm2
FloatMul(a, b) == Round(a.m * b.m, 1, a.e + b.e)

\* dot_product / (norm1 * norm2), for an integer dot product
FloatDiv(d, b) ==
    IF d = 0 THEN FloatZero
    ELSE LET q == Round(Abs(d), b.m, 0 - b.e) IN [sgn |-> Sign(d), m |-> q.m, e |-> q.e]

\* cosine_similarity(vec1, vec2) in floats: 0.0 when a norm is 0, else
\* dot / (norm1 * norm2); the dot products of small integers are exact
CosineFloat(vec1, vec2) ==
    LET dot_product == Dot(vec1, vec2)
        sq1 == Dot(vec1, vec1)
        sq2 == Dot(vec2, vec2)
    IN IF sq1 = 0 \/ sq2 = 0 THEN FloatZero
       ELSE FloatDiv(dot_product, FloatMul(FloatSqrt(sq1), FloatSqrt(sq2)))

\* |x| <= 1 and x = 1 for a float x
MagnitudeAtMostOne(x) ==
    IF x.e >= 0 THEN x.m * Pow2(x.e) <= 1 ELSE x.m <= Pow2(0 - x.e)
\* x is within a few units in the last place of 1
NearOne(x) ==
    /\ x.sgn = 1
    /\ x.e < 0
    /\ Abs(x.m - Pow2(0 - x.e)) * Pow2(Precision - 3) <= Pow2(0 - x.e)

CosineInputs == [1..Dim -> {-1, 0, 2, 3}]

\* cosine_similarity(vec1, vec2)
ApplyCosine ==
    /\ Len(applied) < MaxApplied
    /\ \E vec1, vec2 \in CosineInputs :
         applied' = Append(applied, [fn |-> "cosine_similarity", args |-> <<vec1, vec2>>,
                                     result |-> CosineFloat(vec1, vec2)])
    /\ UNCHANGED stateVars

\* the routes of the application in the order create_app registers them:
\* its own "/" and "/health", then the API router under the prefix "/api"
ApiPrefix == "/api"
AppRoutes ==
    << [path |-> "/", body |-> [message |-> "Welcome to the Streamlink MVP API"]],
       [path |-> "/health", body |-> [status |-> "ok", service |-> "streamlink-api"]] >>
RouterRoutes ==
    << [path |-> "/health", body |-> [status |-> "healthy", service |-> "streamlink-api"]] >>
Routes ==
    AppRoutes \o [k \in 1..Len(RouterRoutes) |->
                     [RouterRoutes[k] EXCEPT !.path = ApiPrefix \o RouterRoutes[k].path]]

Paths == {"/", "/health", "/api/health", "/healthz"}

\* the answer to GET path: the first route that matches, else 404
HttpGet(path) ==
    LET hits == {k \in 1..Len(Routes) : Routes[k].path = path}
    IN IF hits = {} THEN [status_code |-> 404, body |-> [detail |-> "Not Found"]]
       ELSE [status_code |-> 200,
             body |-> Routes[CHOOSE k \in hits : \A h \in hits : k <= h].body]

\* client.get(path)
ApplyGet ==
    /\ Len(applied) < MaxApplied
    /\ \E path \in Paths :
         applied' = Append(applied, [fn |-> "GET", args |-> <<path>>,
                                     result |-> HttpGet(path)])
    /\ UNCHANGED stateVars

ApplyInit ==
    /\ providers = {}
    /\ items = {}
    /\ events = EmptyBag
    /\ enrichQueue = EmptyBag
    /\ ing = [j \in IngJobs |-> IdleJob]
    /\ overlap = FALSE
    /\ embeddings = {}
    /\ embedQueue = EmptyBag
    /\ enr = [j \in EnrJobs |-> IdleEnr]
    /\ emb = [j \in EmbJobs |-> IdleEmb]
    /\ embOverlap = FALSE
    /\ sends = 0
    /\ recs = {}
    /\ ref = [j \in RefJobs |-> IdleRef]
    /\ refOverlap = FALSE
    /\ calls = <<>>
    /\ tasks = [t \in TaskIds |-> NoTask]
    /\ reported = {}
    /\ applied = <<>>

ApplyNext == ApplyCosine \/ ApplyGet

SpecApply == ApplyInit /\ [][ApplyNext]_vars

\* ------------------------------------- properties of the embeddings services
\* C16: a call never raises, and returns one vector per input text; every
\* text whose request failed (network, HTTP status, malformed response) or
\* that was embedded without an API key gets its mock embedding.
C16_FailureGivesMock ==
    \A c \in 1..Len(calls) :
        LET call == calls[c] IN
        /\ Len(call.result) = Len(call.texts)
        /\ \A k \in 1..Len(call.texts) :
              (call.outcomes[k] # "ok") =>
                    call.result[k] = generate_mock_embedding(call.texts[k])

\* the vectors a service of this class has returned that came from its
\* model (a well-formed answer) or from the fallback
ReturnedBy(kind) ==
    UNION {{calls[c].result[k] : k \in {n \in 1..Len(calls[c].result) :
                                            calls[c].outcomes[n] # "empty_embedding"}} :
           c \in {d \in 1..Len(calls) : calls[d].self.kind = kind}}

\* C17: all vectors one embeddings service returns, from the primary
\* provider or from the fallback, have the same length.
C17_OneDimensionality ==
    \A kind \in {"openai", "ollama"} :
        \A v, w \in ReturnedBy(kind) : v.dims = w.dims

\* the (text, vector) pairs of the calls that were forced onto the fallback:
\* no API key, or the request raised
ForcedFallback ==
    UNION {{<<calls[c].texts[k], calls[c].result[k]>> :
                k \in {n \in 1..Len(calls[c].texts) :
                          FallsBack(calls[c].self, calls[c].outcomes[n])}} :
           c \in 1..Len(calls)}

C19_ReportedStates ==
    \A r \in reported : r.status \in {"PENDING", "PROCESSING", "SUCCESS", "FAILURE"}

\* the moves of a job's state that the contract allows
ForwardMoves ==
    {<<"PENDING", "PROCESSING">>, <<"PROCESSING", "SUCCESS">>, <<"PROCESSING", "FAILURE">>}

\* C20: the state of a job run only moves PENDING -> PROCESSING ->
\* SUCCESS | FAILURE; a reported SUCCESS or FAILURE is never replaced, so no
\* run reports both.
C20_StateMovesForward ==
    [][/\ \A j \in EnrJobs : enr'[j].state # enr[j].state
                                => <<enr[j].state, enr'[j].state>> \in ForwardMoves
       /\ \A j \in EmbJobs : emb'[j].state # emb[j].state
                                => <<emb[j].state, emb'[j].state>> \in ForwardMoves]_vars

\* C21: every job a worker has started eventually reaches SUCCESS or
\* FAILURE.
C21_StartedJobEnds ==
    \A t \in TaskIds :
        (tasks[t].pc = "running") ~> (tasks[t].state \in {"SUCCESS", "FAILURE"})

\* C22: a status response with state SUCCESS carries the job's final result
\* payload, never a progress record, whenever the poll is made.
C22_SuccessCarriesFinalResult ==
    \A r \in reported : r.status = "SUCCESS" => r.result = "return_value"

\* C23: a retry of a job that ended in FAILURE submits a new job with the
\* name and the arguments of the original.
C23_RetrySameJob ==
    \A t \in TaskIds :
        (tasks[t].state = "FAILURE" /\ tasks[t].retry_response \in RetryAttempts)
        => \E u \in TaskIds :
              /\ tasks[u].retry_of = t
              /\ tasks[u].name = tasks[t].name
              /\ tasks[u].args = tasks[t].args

\* C24: a metadata-stage run that finds the item's metadata already written
\* by an earlier run reports skipped, asks the provider nothing and leaves
\* the item as it is.
C24_MetadataOnce ==
    [][\A j \in EnrJobs :
          (/\ enr[j].pc = "get_item" /\ enr'[j].pc # "get_item"
           /\ \E it \in ItemById(items, enr[j].item_id) : it.tmdb_id # NULL)
          => /\ enr'[j].status = "skipped" /\ enr'[j].pc = "done"
             /\ items' = items]_vars

\* C25: within a job run the reported progress never decreases and lies in
\* 0..100; an ingestion job takes the records of its batch one after the
\* other, in input order, and the processed count grows up to total.
C25_ProgressStep ==
    /\ \A j \in IngJobs : /\ ing'[j].progress >= ing[j].progress
                          /\ ing'[j].i \in {ing[j].i, ing[j].i + 1}
    /\ \A j \in EnrJobs : enr'[j].progress >= enr[j].progress
    /\ \A j \in EmbJobs : emb'[j].progress >= emb[j].progress
    /\ \A j \in RefJobs : ref'[j].progress >= ref[j].progress

C25_ProgressRange ==
    /\ \A j \in IngJobs : ing[j].progress \in 0..100 /\ ing[j].i <= ing[j].total
    /\ \A j \in EnrJobs : enr[j].progress \in 0..100
    /\ \A j \in EmbJobs : emb[j].progress \in 0..100
    /\ \A j \in RefJobs : ref[j].progress \in 0..100

C25_ProgressMonotone == [][C25_ProgressStep]_vars /\ []C25_ProgressRange

\* a Netflix job of three records after its second record, and a YouTube
\* job after the only record of its batch
C25_Witness ==
    /\ ing[1].kind = "NETFLIX" /\ ing[1].total = 3 /\ ing[1].i = 2
    /\ ing[1].progress = 70
    /\ ing[2].kind = "YOUTUBE" /\ ing[2].total = 1 /\ ing[2].i = 1
    /\ ing[2].progress = 80

\* the tables and the queues
Stored == <<providers, items, events, embeddings, recs, enrichQueue, embedQueue>>

\* C26: a metadata-stage, embedding-stage or refresh job whose item or user
\* does not exist ends in FAILURE with an error message, writes nothing and
\* leaves every other job as it is.
C26_NotFoundStep ==
    /\ \A j \in EnrJobs :
          (/\ enr[j].pc = "get_item" /\ enr'[j] # enr[j]
           /\ ItemById(items, enr[j].item_id) = {})
          => /\ enr'[j].state = "FAILURE" /\ enr'[j].error # NULL
             /\ UNCHANGED <<Stored, emb, ref, ing>>
             /\ \A k \in EnrJobs \ {j} : enr'[k] = enr[k]
    /\ \A j \in EmbJobs :
          (/\ emb[j].pc = "get_item" /\ emb'[j] # emb[j]
           /\ ItemById(items, emb[j].item_id) = {})
          => /\ emb'[j].state = "FAILURE" /\ emb'[j].error # NULL
             /\ UNCHANGED <<Stored, enr, ref, ing>>
             /\ \A k \in EmbJobs \ {j} : emb'[k] = emb[k]
    /\ \A j \in RefJobs :
          (/\ ref[j].pc = "idle" /\ ref'[j] # ref[j]
           /\ ~UserExists(ref'[j].user_id))
          => /\ ref'[j].state = "FAILURE" /\ ref'[j].error # NULL
             /\ UNCHANGED <<Stored, enr, emb, ing>>
             /\ \A k \in RefJobs \ {j} : ref'[k] = ref[k]

C27_CosineRange ==
    \A k \in 1..Len(applied) :
        applied[k].fn = "cosine_similarity" =>
            LET vec1 == applied[k].args[1]
                vec2 == applied[k].args[2]
                x == applied[k].result
            IN IF Dot(vec1, vec1) = 0 \/ Dot(vec2, vec2) = 0 THEN x = FloatZero
               ELSE /\ MagnitudeAtMostOne(x)
                    /\ vec1 = vec2 => NearOne(x)

\* C28: a GET on /health answers 200 with a body whose status is "healthy".
C28_HealthIsHealthy ==
    \A k \in 1..Len(applied) :
        (applied[k].fn = "GET" /\ applied[k].args = <<"/health">>) =>
            /\ applied[k].result.status_code = 200
            /\ applied[k].result.body.status = "healthy"

\* C29: every Item an ingestion job created eventually has an enrichment job
\* enqueued for it: when its job completed, and also when its job failed
\* after committing it and another job has then gone through a batch that
\* holds the item's record.
HasItem(id) == \E it \in items : it.id = id
EnrichmentEnqueued(id) == \E j \in IngJobs : id \in Range(ing[j].enqueued)
Resubmitted(id) ==
    \E it \in items, k \in IngJobs \ {id[1]} :
        /\ it.id = id
        /\ ing[id[1]].pc = "failed"
        /\ ing[k].pc = "done"
        /\ CopiesIn(ItemKey(it), ing[k].seen) > 0

C29_CreatedItemsEnqueued ==
    \A id \in IngJobs \X (0..(MaxBatch - 1)) :
        (HasItem(id) /\ (ing[id[1]].pc = "done" \/ Resubmitted(id)))
            ~> EnrichmentEnqueued(id)

\* C30: when a metadata-stage job committed an item's metadata and failed
\* before the embedding job was enqueued, and the metadata stage has run on
\* the item again, an embedding job for the item is eventually enqueued.
EnqueueFailed(j, id) ==
    /\ enr[j].pc = "failed"
    /\ enr[j].item_id = id
    /\ enr[j].error = "Error connecting to broker"
NotYetRun(k) == enr[k].pc = "idle"
RanOn(k, id) == enr[k].pc = "done" /\ enr[k].item_id = id
EmbeddingJobFor(id) ==
    \/ CopiesIn(id, embedQueue) > 0
    \/ \E j \in EmbJobs : emb[j].pc # "idle" /\ emb[j].item_id = id
    \/ EmbeddingsOf(id) # {}

C30_RerunEnqueuesEmbedding ==
    \A id \in ArgIds : \A j, k \in EnrJobs :
        []((EnqueueFailed(j, id) /\ NotYetRun(k))
              => [](RanOn(k, id) => <>EmbeddingJobFor(id)))

\* ------------------------------------------------------ failure semantics
Fails(job) == job.pc # "failed" /\ job'.pc = "failed"

ItemIds(tbl) == {it.id : it \in tbl}

\* C14: the step in which a job of any stage fails puts the job in FAILURE
\* with an error message and undoes nothing that was committed: the items
\* the job created are in table items, and in every step every Item row
\* stays, a saved tmdb_id stays set, every Event, Embedding and Provider
\* row stays.
C14_FailStep ==
    /\ \A j \in IngJobs : Fails(ing[j]) =>
          /\ ing'[j].state = "FAILURE" /\ ing'[j].error # NULL
          /\ Range(ing'[j].created_items) \subseteq ItemIds(items')
    /\ \A j \in EnrJobs : Fails(enr[j]) =>
          /\ enr'[j].state = "FAILURE" /\ enr'[j].error # NULL
          /\ UNCHANGED <<items, embeddings, embedQueue>>
    /\ \A j \in EmbJobs : Fails(emb[j]) =>
          /\ emb'[j].state = "FAILURE" /\ emb'[j].error # NULL
          /\ UNCHANGED <<items, embeddings>>
    /\ \A j \in RefJobs : Fails(ref[j]) =>
          /\ ref'[j].state = "FAILURE" /\ ref'[j].error # NULL
          /\ UNCHANGED recs

C14_CommittedStays ==
    /\ ItemIds(items) \subseteq ItemIds(items')
    /\ \A it \in items : it.tmdb_id # NULL =>
          \E n \in items' : n.id = it.id /\ n.tmdb_id # NULL
    /\ events \sqsubseteq events'
    /\ embeddings \subseteq embeddings'
    /\ providers \subseteq providers'

UserRecs(tbl, u) == {r \in tbl : r.user_id = u}

\* items with a WATCHED event of user u in the last 30 days
WatchedInWindow(u) ==
    {e.item_id : e \in {x \in BagToSet(events) :
        x.user_id = u /\ x.event_type = "WATCHED" /\ x.occurred_at = "recent"}}

EmbOfWatched(u) == {e \in embeddings : e.item_id \in WatchedInWindow(u)}
EmbOfOthers(u) == {e \in embeddings : e.item_id \notin WatchedInWindow(u)}

NoOpStatus == {"no_data", "no_embeddings", "no_candidates"}

Finishes(j) == ref[j].pc # "done" /\ ref'[j].pc = "done"

\* C6: a refresh ends with no_data exactly when the user has no WATCHED event
\* in the window, with no_embeddings when no watched item has an embedding,
\* with no_candidates when no embedding lies outside the watched set; such
\* a refresh has deleted and inserted nothing, and table recommendations
\* changes only in steps of jobs that are past these exits.
C6_Exit ==
    \A j \in RefJobs :
        Finishes(j) =>
            LET u == ref[j].user_id
                st == ref'[j].status
            IN /\ (st = "no_data") <=> (WatchedInWindow(u) = {})
               /\ (st = "no_embeddings") <=>
                     (WatchedInWindow(u) # {} /\ EmbOfWatched(u) = {})
               /\ (st = "no_candidates") <=>
                     (WatchedInWindow(u) # {} /\ EmbOfWatched(u) # {} /\ EmbOfOthers(u) = {})
               /\ st \in NoOpStatus =>
                     /\ recs' = recs
                     /\ ref[j].deleted = {} /\ ref[j].targets = {} /\ ref[j].new = {}

C6_Writers ==
    recs' # recs => \E j \in RefJobs : ref[j].pc \in {"deleting", "insert"} /\ ref'[j] # ref[j]

C6_NoOpLeavesSet == [][C6_Exit /\ C6_Writers]_vars

C6_Witness ==
    /\ recs = PriorRecs
    /\ ref[1].status = "no_candidates"
    /\ ref[2].status = "no_candidates"

\* C7: the commit of a successful refresh that no other refresh overlapped
\* leaves as the user's set exactly the rows it inserted: min(20, number of
\* candidates) rows with the fixed reason and algorithm, none of which
\* existed before.
C7_Step ==
    \A j \in RefJobs :
        (Finishes(j) /\ ref'[j].status = "success" /\ ~refOverlap) =>
            LET u == ref[j].user_id
                new == ref'[j].new
            IN /\ UserRecs(recs', u) = new
               /\ Cardinality(new) = Min(20, Cardinality(EmbOfOthers(u)))
               /\ \A r \in new : /\ r.reason = "Based on your recent viewing history"
                                 /\ r.algorithm = "content_based"
                                 /\ r.user_id = u
               /\ {r.id : r \in new} \cap {r.id : r \in recs} = {}

C7_FullReplacement == [][C7_Step]_vars

\* two refreshes one after the other, more than 20 candidates
C7_Witness ==
    /\ ~refOverlap
    /\ ref[1].status = "success" /\ ref[2].status = "success"
    /\ recs = ref[2].new
    /\ Cardinality(recs) = 20
    /\ Cardinality(EmbOfOthers("u1")) > 20

\* C8: table recommendations changes only in the commit of a successful
\* refresh, which leaves its new rows in it; a refresh that fails after its
\* delete leaves the table as it is; a user's set that is not empty never
\* becomes empty.
C8_Step ==
    /\ recs' # recs =>
          \E j \in RefJobs : /\ ref[j].pc = "insert" /\ ref'[j].pc = "done"
                             /\ ref'[j].status = "success"
                             /\ ref'[j].new # {} /\ ref'[j].new \subseteq recs'
    /\ \A j \in RefJobs :
          (ref[j].pc \in {"deleting", "insert"} /\ ref'[j].pc = "failed") => recs' = recs
    /\ \A u \in Users : UserRecs(recs, u) # {} => UserRecs(recs', u) # {}

C8_DeleteInsertAtomic == [][C8_Step]_vars

\* a refresh was killed between its delete and its commit, another is there
\* now, and the prior set is still in place
C8_Witness ==
    /\ ref[1].pc = "failed" /\ ref[1].failed_at = "insert"
    /\ ref[2].pc = "insert" /\ ref[2].deleted = PriorRecs
    /\ recs = PriorRecs

\* C9: when two overlapping refreshes of a user both succeeded, the user's
\* set is the output of one of them and has at most 20 rows.
C9_OneOutput ==
    (/\ refOverlap
     /\ ref[1].status = "success" /\ ref[2].status = "success"
     /\ ref[1].user_id = ref[2].user_id)
    => /\ UserRecs(recs, ref[1].user_id) \in {ref[1].new, ref[2].new}
       /\ Cardinality(UserRecs(recs, ref[1].user_id)) <= 20

\* C10: the rows of a successful refresh carry, for distinct candidate
\* embeddings, the cosine similarity between the element-wise mean of the
\* watched items' embeddings and the candidate's embedding; they are
\* min(20, number of candidates) many and no candidate left out scores
\* strictly higher than a stored one.
RECURSIVE SumComponent(_, _)
SumComponent(S, k) ==
    IF S = {} THEN 0
    ELSE LET e == CHOOSE x \in S : TRUE IN e.vector[k] + SumComponent(S \ {e}, k)

\* component k of the mean, times the number of vectors
MeanTimesN(S) == [k \in 1..Dim |-> SumComponent(S, k)]

\* cos(mean(S), v): the factor 1/|S| of the mean cancels
RECURSIVE SumProducts(_, _, _)
SumProducts(a, b, k) == IF k = 0 THEN 0 ELSE a[k] * b[k] + SumProducts(a, b, k - 1)

ExpectedScore(S, v) ==
    LET m == MeanTimesN(S)
        d == SumProducts(m, v, Dim)
        pp == SumProducts(m, m, Dim)
        vv == SumProducts(v, v, Dim)
    IN IF pp = 0 \/ vv = 0 THEN [sgn |-> 0, num |-> 0, den |-> 1]
       ELSE Cosine(Sign(d), d * d, pp * vv)

RECURSIVE RowsToBag(_)
RowsToBag(S) ==
    IF S = {} THEN EmptyBag
    ELSE LET r == CHOOSE x \in S : TRUE
         IN BagAdd(RowsToBag(S \ {r}), [item_id |-> r.item_id, score |-> r.score])

C10_ScoresAndTop ==
    \A j \in RefJobs :
        ref[j].status = "success" =>
            LET u == ref[j].user_id
                stored == RowsToBag(ref[j].new)
                cands == RowsToBag({[id |-> e.id, item_id |-> e.item_id,
                                     score |-> ExpectedScore(EmbOfWatched(u), e.vector)]
                                    : e \in EmbOfOthers(u)})
                left == cands (-) stored
            IN /\ stored \sqsubseteq cands
               /\ BagCardinality(stored) = Min(20, Cardinality(EmbOfOthers(u)))
               /\ \A x \in BagToSet(stored), y \in BagToSet(left) :
                     ~ScoreLess(x.score, y.score)

\* a centroid of two embeddings, more than 20 candidates, and a candidate
\* left out that scores strictly lower than a stored one
C10_Witness ==
    /\ ref[1].status = "success"
    /\ Cardinality(EmbOfWatched("u1")) = 2
    /\ Cardinality(EmbOfOthers("u1")) > 20
    /\ Cardinality(ref[1].new) = 20
    /\ \E r \in ref[1].new, e \in EmbOfOthers("u1") :
          ScoreLess(ExpectedScore(EmbOfWatched("u1"), e.vector), r.score)

\* C31: when a refresh ends with success, no row of its user's recommendation
\* set refers to an item the user has a WATCHED event for in the 30-day
\* window that refresh read.
C31_Step ==
    \A j \in RefJobs :
        (Finishes(j) /\ ref'[j].status = "success") =>
            \A r \in UserRecs(recs', ref[j].user_id) :
                r.item_id \notin ref[j].watched_item_ids

C31_NoWatchedRecommended == [][C31_Step]_vars

\* C32: in every user's recommendation set each item appears at most once.
C32_ItemOncePerUser ==
    \A u \in Users :
        \A r1, r2 \in UserRecs(recs, u) : r1.item_id = r2.item_id => r1 = r2

\* C33: every vector a refresh passes to the centroid computation or to
\* cosine_similarity has the same model and the same length.
\* the candidate rows whose pair is in the job's list of similarities
ScoredRows(j) ==
    {e \in CandidateEmbeddings(embeddings, ref[j].watched_item_ids) :
        \E k \in 1..Len(ref[j].similarities) :
            /\ ref[j].similarities[k].item_id = e.item_id
            /\ ref[j].similarities[k].score = cosine_similarity(ref[j].user_preference, e.vector)}

C33_OneModelOneLength ==
    \A j \in RefJobs :
        ref[j].similarities # <<>> =>
            \A e1, e2 \in WatchedEmbeddings(embeddings, ref[j].watched_item_ids) \cup ScoredRows(j) :
                e1.model = e2.model /\ Len(e1.vector) = Len(e2.vector)

\* C34: two successful refreshes of a user on the same stored data produce
\* the same items in the same order with the same scores.
C34_SameOutput ==
    (/\ ref[1].status = "success" /\ ref[2].status = "success"
     /\ ref[1].user_id = ref[2].user_id)
    => Top(ref[1].similarities) = Top(ref[2].similarities)

\* C35: the step in which an ingestion job finds an existing Item for a
\* record by (source, title, year) reuses that Item: table items is left as
\* it is, nothing is created, and one Event for the Item with the record's
\* key is added to the job's session.
C35_Step ==
    \A j \in IngJobs :
        (ing[j].pc = "loop" /\ ing'[j].created_events = ing[j].created_events + 1) =>
            /\ items' = items
            /\ events' = events
            /\ ing'[j].created_items = ing[j].created_items
            /\ Len(ing'[j].session) = Len(ing[j].session) + 1
            /\ \E it \in items :
                 /\ it.id = ing'[j].session[Len(ing'[j].session)].item_id
                 /\ CopiesIn(ItemKey(it), ing'[j].seen) = CopiesIn(ItemKey(it), ing[j].seen) + 1

C35_ReuseLeavesItem == [][C35_Step]_vars

\* the second job found the Item of the first and added only its Event
C35_Witness ==
    /\ ing[1].pc = "done" /\ ing[2].pc = "done"
    /\ Len(ing[1].created_items) = 1
    /\ ing[2].created_items = <<>> /\ ing[2].created_events = 1
    /\ Cardinality(items) = 1
    /\ BagCardinality(events) = 2

\* C36: per item the steps come in the order RAW, METADATA_ENRICHED,
\* EMBEDDED: an embedding job is enqueued for an item only when the item's
\* row carries the committed metadata, an embedding job builds its text from
\* the enriched title, overview and genres, and only enriched items have an
\* embedding.
Enriched(id) == \E it \in items : it.id = id /\ it.tmdb_id # NULL

C36_Step ==
    /\ \A id \in ArgIds :
          CopiesIn(id, embedQueue') > CopiesIn(id, embedQueue) => Enriched(id)
    /\ \A j \in EmbJobs :
          (emb[j].pc = "check" /\ emb'[j].pc = "generate") =>
              /\ emb[j].item.tmdb_id # NULL
              /\ emb[j].item \in items
              /\ emb'[j].text = <<emb[j].item.title>>
                     \o (IF emb[j].item.overview # NULL THEN <<emb[j].item.overview>> ELSE <<>>)
                     \o (IF emb[j].item.genres # <<>> THEN <<emb[j].item.genres>> ELSE <<>>)

C36_OnlyEnrichedEmbedded == \A e \in embeddings : Enriched(e.item_id)

C36_StagesInOrder == [][C36_Step]_vars /\ []C36_OnlyEnrichedEmbedded

\* an embedding built from the title, the overview and the genres
C36_Witness ==
    \E e \in embeddings :
        /\ e.item_id = <<1, 0>>
        /\ e.vector[2] = <<"A", "o1", <<"g1">>>>
        /\ \E j \in EnrJobs : enr[j].item_id = e.item_id /\ enr[j].status = "success"

\* C37: an ingestion job whose user id does not exist, once it has ended
\* after taking a record of its batch, is in FAILURE and has left no Item and
\* no Event of the batch in the database.
C37_UnknownUserLeavesNothing ==
    \A j \in IngJobs :
        (/\ ing[j].user_id \notin Users
         /\ ing[j].pc \in {"done", "failed"}
         /\ ing[j].created_events > 0) =>
            /\ ing[j].state = "FAILURE"
            /\ CreatedBy(j) = {}
            /\ \A e \in BagToSet(events) : e.user_id # ing[j].user_id


\* C38: every enrichment job an ingestion job enqueues refers to an Item that
\* is committed when the job is enqueued, so no such job fails with
\* item-not-found for having started before its item was visible.
C38_Step ==
    \A id \in BagToSet(enrichQueue') :
        CopiesIn(id, enrichQueue') > CopiesIn(id, enrichQueue) => HasItem(id)

C38_NoNotFound ==
    /\ \A id \in BagToSet(enrichQueue) : HasItem(id)
    /\ \A j \in EnrJobs : enr[j].error # "Item not found"

C38_EnqueuedItemCommitted == [][C38_Step]_vars /\ []C38_NoNotFound

\* a worker has read the Item of a job that one ingestion job enqueued, while
\* another ingestion job is still running
C38_Witness ==
    \E j \in EnrJobs, k \in IngJobs :
        /\ enr[j].pc = "search"
        /\ enr[j].item_id \in Range(ing[k].enqueued)
        /\ \E h \in IngJobs \ {k} : IngRunning(h)

\* C39: a retry of a job that is pending, running or ended in SUCCESS submits
\* no new job, and a cancel of a job that has finished issues no revoke and
\* leaves the job's state and result as they are.
Retried(t) == tasks'[t].retry_response # tasks[t].retry_response
Cancelled(t) == tasks'[t].cancel_response # tasks[t].cancel_response

C39_Step ==
    \A t \in TaskIds :
        /\ (Retried(t) /\ tasks[t].state \in {"PENDING", "STARTED", "PROCESSING", "SUCCESS"})
           => tasks' = [tasks EXCEPT ![t].retry_response = tasks'[t].retry_response]
        /\ (Cancelled(t) /\ tasks[t].state \in {"SUCCESS", "FAILURE", "REVOKED"})
           => tasks' = [tasks EXCEPT ![t].cancel_response = tasks'[t].cancel_response]

C39_NoOpRetryAndCancel == [][C39_Step]_vars

\* retry and cancel have both answered for a job that had ended in SUCCESS,
\* and a retry has answered for a job that was not ready
C39_Witness ==
    \E t, u \in TaskIds :
        /\ tasks[t].state = "SUCCESS" /\ ~tasks[t].revoked
        /\ tasks[t].retry_response = "Job was successful, no need to retry"
        /\ tasks[t].cancel_response = "Job already completed, cannot cancel"
        /\ tasks[u].retry_response = "Job is still running, cannot retry"
        /\ tasks[u].pc \in {"queued", "running"}
        /\ \A w \in TaskIds : tasks[w].retry_of = 0
====
